---- MODULE Spec2Model ----
(***************************************************************************)
(* Model of the triage pipeline of the Email-Assistant repository:         *)
(*   assistant/providers/demo.py  DemoProvider (the file-backed source)    *)
(*   assistant/llm.py             ask_json and the cached _get_client      *)
(*   assistant/schema.py          TriageOut (the pydantic validator)       *)
(*   assistant/pipeline.py        triage_message and PRIORITY_TO_LABEL     *)
(* Every call of the program runs in a call slot that walks through the    *)
(* statements of the function it executes.                                 *)
(***************************************************************************)
EXTENDS Integers, Sequences, FiniteSets, TLC

\* ------------------------------------------------------------------ bounds
MaxCalls == 2       \* calls started in one behaviour
MaxTextLen == 4     \* tokens of a reply text that is drawn freely

\* --------------------------------------------------------------- constants
\* schema.py: Field(min_length=10, max_length=800)
MinSummaryLen == 10
MaxSummaryLen == 800

\* pipeline.py: the labels triage_message adds
SummaryLabel == "EA/Summary"
PriorityLabels == {"EA/Priority/High", "EA/Priority/Med", "EA/Priority/Low"}

\* schema.py: Priority = Literal["high", "medium", "low"]
Priority == {"high", "medium", "low"}

\* pipeline.py: PRIORITY_TO_LABEL
PRIORITY_TO_LABEL ==
    [p \in Priority |->
        CASE p = "high"   -> "EA/Priority/High"
          [] p = "medium" -> "EA/Priority/Med"
          [] p = "low"    -> "EA/Priority/Low"]

\* the labels of the model: the four labels of the pipeline and one label of
\* the mailbox itself
Labels == PriorityLabels \cup {SummaryLabel, "INBOX"}

\* Python's order of these strings (str.__lt__, by code point), as sorted() uses
\* it: "EA/Priority/High" < "EA/Priority/Low" < "EA/Priority/Med" <
\* "EA/Summary" < "INBOX"
Rank(l) ==
    CASE l = "EA/Priority/High" -> 1
      [] l = "EA/Priority/Low"  -> 2
      [] l = "EA/Priority/Med"  -> 3
      [] l = "EA/Summary"       -> 4
      [] l = "INBOX"            -> 5

\* ids a caller passes: two messages of the inbox file and one id it lacks
Ids == {"m1", "m2", "zz"}

\* --------------------------------------------------------- list helpers
Range(s) == {s[i] : i \in 1..Len(s)}

NoDup(s) == \A i, j \in 1..Len(s) : i # j => s[i] # s[j]

IsSorted(s) == \A i \in 1..(Len(s) - 1) : Rank(s[i]) < Rank(s[i + 1])

\* sorted(labels) of a set of strings
RECURSIVE sorted(_)
sorted(S) ==
    IF S = {} THEN <<>>
    ELSE LET m == CHOOSE x \in S : \A y \in S : Rank(x) <= Rank(y)
         IN  <<m>> \o sorted(S \ {m})


\* ------------------------------------------------- the backend's reply text
\* The reply text is a sequence of tokens: "fence" a triple-backtick fence, "json" the
\* annotation of a fence, " " one whitespace character, "prose" a run of
\* characters that are neither whitespace, fence nor bracket, the four
\* brackets, and "body" the members of the JSON value the reply carries.
WS == " "
Tokens == {"fence", "json", WS, "prose", "{", "}", "[", "]", "body"}

\* str.lstrip() / str.strip()
RECURSIVE lstrip(_)
lstrip(s) == IF Len(s) > 0 /\ Head(s) = WS THEN lstrip(Tail(s)) ELSE s

RECURSIVE rstrip(_)
rstrip(s) ==
    IF Len(s) > 0 /\ s[Len(s)] = WS THEN rstrip(SubSeq(s, 1, Len(s) - 1)) ELSE s

strip(s) == rstrip(lstrip(s))

\* llm.py line 33: re.sub of a leading fence, optional json and
\* whitespace, or whitespace and a trailing fence, by the empty string;
\* the first alternative matches at position 0 only, the second at the end only
sub_leading_fence(s) ==
    IF Len(s) > 0 /\ s[1] = "fence"
    THEN LET r == Tail(s)
         IN  lstrip(IF Len(r) > 0 /\ r[1] = "json" THEN Tail(r) ELSE r)
    ELSE s

\* a substitution that leaves the trailing fence in place
sub_trailing_fence_kept(s) == s

sub_trailing_fence(s) ==
    IF Len(s) > 0 /\ s[Len(s)] = "fence"
    THEN rstrip(SubSeq(s, 1, Len(s) - 1))
    ELSE s

sub_fences(s) == sub_trailing_fence(sub_leading_fence(s))

\* llm.py line 34: clean.lstrip().startswith(("{", "["))
startswith_bracket(s) ==
    LET t == lstrip(s) IN Len(t) > 0 /\ t[1] \in {"{", "["}

\* llm.py line 35: re.search(r"(\{.*\}|\[.*\])\s*$", clean, flags=re.S): the
\* leftmost position of an opening bracket whose closing bracket is the last
\* character before the trailing whitespace; 0 when there is no match
search_start(s) ==
    LET t == rstrip(s)
        n == Len(t)
        ok(i) == \/ s[i] = "{" /\ i < n /\ t[n] = "}"
                 \/ s[i] = "[" /\ i < n /\ t[n] = "]"
        hits == {i \in 1..n : ok(i)}
    IN  IF hits = {} THEN 0 ELSE CHOOSE i \in hits : \A j \in hits : i <= j

\* llm.py lines 33-37: the text handed to json.loads
clean_text(resp) ==
    LET clean == sub_fences(strip(resp))
    IN  IF startswith_bracket(clean) THEN clean
        ELSE LET i == search_start(clean)
             IN  IF i = 0 THEN clean
                 ELSE strip(SubSeq(clean, i, Len(clean)))

\* json.loads on the token text: "obj" for an object with members, "empty"
\* for {}, "list" for an array, "error" for a text that is not one JSON value
is_object(t) ==
    /\ Len(t) >= 2 /\ t[1] = "{" /\ t[Len(t)] = "}"
    /\ strip(SubSeq(t, 2, Len(t) - 1)) \in {<<>>, <<"body">>}

RECURSIVE is_array(_)
is_array(t) ==
    /\ Len(t) >= 2 /\ t[1] = "[" /\ t[Len(t)] = "]"
    /\ LET inner == strip(SubSeq(t, 2, Len(t) - 1))
       IN  \/ inner \in {<<>>, <<"body">>}
           \/ is_object(inner)
           \/ is_array(inner)

json_loads(clean) ==
    LET t == strip(clean)
    IN  IF is_object(t)
        THEN (IF strip(SubSeq(t, 2, Len(t) - 1)) = <<>> THEN "empty" ELSE "obj")
        ELSE IF is_array(t) THEN "list" ELSE "error"

\* the reply texts the backend returns in this model
ResponseTexts ==
    { <<"{", "body", "}">>,
      <<WS, "{", "body", "}", WS>>,
      <<"fence", "json", WS, "{", "body", "}", WS, "fence">>,
      <<"fence", WS, "{", "body", "}", WS, "fence">>,
      <<"prose", WS, "{", "body", "}">>,
      <<"prose", WS, "{", "body", "}", WS, "prose">>,
      <<"prose">>,
      <<>>,
      <<"{", "}">>,
      <<"[", "body", "]">> }

\* streamlit_app.py line 182: ask_json_openai hands the content to json.loads
\* as it is
openai_text(content) == content

\* streamlit_app.py lines 200-201: ask_json_anthropic strips the text, removes
\* the prefix of a fence annotated json and the suffix of a fence, and strips
removeprefix_fence_json(s) ==
    IF Len(s) >= 2 /\ s[1] = "fence" /\ s[2] = "json"
    THEN SubSeq(s, 3, Len(s)) ELSE s

removesuffix_fence(s) ==
    IF Len(s) >= 1 /\ s[Len(s)] = "fence" THEN SubSeq(s, 1, Len(s) - 1) ELSE s

anthropic_text(text) == strip(removesuffix_fence(removeprefix_fence_json(strip(text))))

\* the sequences over S of length at most n
SeqsUpTo(S, n) == UNION {[1..k -> S] : k \in 0..n}

\* the texts that are one JSON value
JsonTexts ==
    {t \in SeqsUpTo(Tokens, MaxTextLen) : json_loads(t) # "error" /\ strip(t) = t}

\* a JSON value between an opening fence, annotated json or not, and a closing
\* fence, with or without whitespace around the value and around the text
FencedTexts ==
    {lead \o <<"fence">> \o ann \o g1 \o j \o g2 \o <<"fence">> \o trail :
        lead \in {<<>>, <<WS>>}, ann \in {<<>>, <<"json">>},
        g1 \in {<<>>, <<WS>>}, j \in JsonTexts, g2 \in {<<>>, <<WS>>},
        trail \in {<<>>, <<WS>>}}

\* the reply texts of the model of the text handling: every short text, the
\* fenced values and the replies of the pipeline model
TextInputs == SeqsUpTo(Tokens, MaxTextLen) \cup FencedTexts \cup ResponseTexts

\* --------------------------------------------- the parsed JSON and TriageOut
\* A JSON member is absent, or present with a value.  summary is a string,
\* modelled by its length; reasons is a list whose items are strings ("r") or
\* null ("<null>"); suggested_actions is a list whose items are objects with a
\* "type" member, or items that are no object (isdict = FALSE).
Absent == "<absent>"

SummaryValues ==
    {[k |-> "absent", len |-> 0]} \cup
    {[k |-> "str", len |-> n] :
        n \in {5, MinSummaryLen - 1, MinSummaryLen, MaxSummaryLen, MaxSummaryLen + 1}}

\* the summaries of the replies of the pipeline model
ReplySummaries ==
    {[k |-> "str", len |-> n] : n \in {MinSummaryLen - 1, MinSummaryLen}}

PriorityValues == Priority \cup {Absent, "urgent"}

ReasonsValues ==
    {[k |-> "absent", v |-> <<>>]} \cup
    {[k |-> "list", v |-> v] : v \in {<<>>, <<"r">>, <<"<null>">>}}

ReplyReasons == {[k |-> "absent", v |-> <<>>], [k |-> "list", v |-> <<"r">>]}

Action(t) == [isdict |-> TRUE, type |-> t]
NonDictItem == [isdict |-> FALSE, type |-> Absent]

ActionsValues ==
    {[k |-> "absent", v |-> <<>>]} \cup
    {[k |-> "list", v |-> v] :
        v \in {<<>>, <<Action("label")>>, <<Action("reply_draft")>>,
               <<Action("archive")>>, <<NonDictItem>>}}

ReplyActions ==
    {[k |-> "absent", v |-> <<>>]} \cup
    {[k |-> "list", v |-> <<Action(t)>>] : t \in {"label", "reply_draft", "archive"}}

\* the objects a parsed reply can be
Objects ==
    [summary : SummaryValues, priority : PriorityValues,
     reasons : ReasonsValues, suggested_actions : ActionsValues]

\* a reply that validates
BaseReply ==
    [summary |-> [k |-> "str", len |-> MinSummaryLen], priority |-> "high",
     reasons |-> [k |-> "list", v |-> <<"r">>],
     suggested_actions |-> [k |-> "list", v |-> <<Action("label")>>]]

\* the objects the replies of the pipeline model carry: the replies that
\* differ from BaseReply in at most one member
Payloads ==
    {[BaseReply EXCEPT !.summary = v] : v \in ReplySummaries} \cup
    {[BaseReply EXCEPT !.priority = v] : v \in PriorityValues} \cup
    {[BaseReply EXCEPT !.reasons = v] : v \in ReplyReasons} \cup
    {[BaseReply EXCEPT !.suggested_actions = v] : v \in ReplyActions}

\* two objects that validate, of different priorities
TextPayloads ==
    {o \in Payloads :
        /\ o.summary.len = MinSummaryLen
        /\ o.priority \in {"high", "low"}
        /\ o.reasons.k = "list"
        /\ o.suggested_actions = [k |-> "list", v |-> <<Action("label")>>]}

\* the object {} : every member absent
EmptyObject ==
    [summary |-> [k |-> "absent", len |-> 0], priority |-> Absent,
     reasons |-> [k |-> "absent", v |-> <<>>],
     suggested_actions |-> [k |-> "absent", v |-> <<>>]]

\* what ask_json returns: a dict, a list, or nothing yet
NoData == [kind |-> "none", obj |-> EmptyObject]

\* schema.py TriageOut: the fields whose validation fails
\* a length check whose two bounds are exclusive
summary_ok_exclusive(v) ==
    v.k = "str" /\ v.len > MinSummaryLen /\ v.len < MaxSummaryLen

summary_ok(v) ==
    v.k = "str" /\ v.len >= MinSummaryLen /\ v.len <= MaxSummaryLen

\* a Priority check that only asks for the member to be present
priority_ok_any_string(v) == v # Absent

priority_ok(v) == v \in Priority

reasons_ok(v) == v.k = "list" /\ \A i \in 1..Len(v.v) : v.v[i] # "<null>"

suggested_actions_ok(v) == v.k = "list" /\ \A i \in 1..Len(v.v) : v.v[i].isdict

ErrorFields(obj) ==
    {f \in {"summary", "priority", "reasons", "suggested_actions"} :
        CASE f = "summary"  -> ~summary_ok(obj.summary)
          [] f = "priority" -> ~priority_ok(obj.priority)
          [] f = "reasons"  -> ~reasons_ok(obj.reasons)
          [] f = "suggested_actions" -> ~suggested_actions_ok(obj.suggested_actions)}

\* the TriageOut built from an object that validates
TriageOut(obj) ==
    [summary |-> obj.summary.len, priority |-> obj.priority,
     reasons |-> obj.reasons.v, suggested_actions |-> obj.suggested_actions.v]

NoOut == [summary |-> 0, priority |-> Absent, reasons |-> <<>>,
          suggested_actions |-> <<>>]

\* ------------------------------------------------------- DemoProvider
\* a _find that falls back to the first message: next(..., self._msgs[0])
find_with_default(ms, id) ==
    LET hits == {i \in 1..Len(ms) : ms[i].id = id}
    IN  IF hits = {} THEN 1 ELSE CHOOSE i \in hits : \A j \in hits : i <= j

\* demo.py _find: the index of the first message of msgs with this id, 0 when
\* next() finds none (StopIteration)
find(ms, id) ==
    LET hits == {i \in 1..Len(ms) : ms[i].id = id}
    IN  IF hits = {} THEN 0 ELSE CHOOSE i \in hits : \A j \in hits : i <= j

\* an optional list argument: None or a list
None == [k |-> "None", v |-> <<>>]
List(v) == [k |-> "list", v |-> v]

\* "x or []"
or_empty(x) == IF x.k = "None" THEN <<>> ELSE x.v

\* an apply_labels that toggles the labels of add instead of uniting them
new_labels_toggle(labels, add, remove) ==
    sorted(((labels \cup Range(or_empty(add))) \ (labels \cap Range(or_empty(add))))
           \ Range(or_empty(remove)))

\* an apply_labels that discards remove before it unites add
new_labels_remove_first(labels, add, remove) ==
    sorted((labels \ Range(or_empty(remove))) \cup Range(or_empty(add)))

\* an apply_labels that appends add to the stored list: m["labels"] += add
new_labels_append(labels, add, remove) ==
    sorted(labels \ Range(or_empty(remove))) \o or_empty(add)

\* demo.py lines 22-25: the list stored for a message whose label set is labels
new_labels(labels, add, remove) ==
    sorted((labels \cup Range(or_empty(add))) \ Range(or_empty(remove)))

\* a triage_message that adds the summary marker only
labels_to_add_summary_only(out) == <<SummaryLabel>>

\* pipeline.py line 18
labels_to_add(out) == <<SummaryLabel, PRIORITY_TO_LABEL[out.priority]>>

\* ------------------------------------------------------------------ state
VARIABLES
    msgs,      \* DemoProvider._msgs: the list of message records
    env_key,   \* os.environ["OPENAI_API_KEY"], "" when unset
    cache,     \* the lru_cache of _get_client: argument -> key of the client
    env_anthropic, \* os.environ["ANTHROPIC_API_KEY"], "" when unset
    secrets,   \* st.secrets: name of a key -> its value, "" when it has none
    calls,     \* the call running in each slot: its function, position, locals
    ncalls     \* calls started so far

vars == <<msgs, env_key, cache, env_anthropic, secrets, calls, ncalls>>

Slots == {1, 2}

\* the only slot of a program that makes one call at a time
SeqSlots == {1}

MsgIds == <<"m1", "m2">>

\* the label lists of the inbox file: any list, sorted or not, with or
\* without repeated entries
InitLabels == {<<>>, <<"INBOX", "EA/Summary">>, <<"INBOX", "INBOX">>}

ThreadIds == {"t1"}

Keys == {"k1", "k2"}
NoneKey == "<None>"
ApiKeyArgs == {NoneKey, "k2"}

\* the lists a caller passes to apply_labels as add and remove
AddLists ==
    {None, List(<<>>), List(<<"INBOX">>), List(<<"INBOX", "INBOX">>),
     List(<<"INBOX", SummaryLabel>>)}

RemoveLists == {None, List(<<"INBOX">>), List(<<SummaryLabel, "INBOX">>)}

\* what a caller that repeats a call knows of the call before: how it ended,
\* the priority it returned, and the messages it started from
NoPrev == [status |-> "none", priority |-> Absent, before |-> <<>>]

\* the names of the keys of the two backends, in os.environ and in st.secrets
SecretNames == {"OPENAI_API_KEY", "ANTHROPIC_API_KEY"}
NoSecrets == [n \in SecretNames |-> ""]

Idle ==
    [op |-> "none", pc |-> "idle", id |-> "", add |-> None, remove |-> None,
     api_key |-> NoneKey, m |-> 0, labels |-> {}, data |-> NoData,
     out |-> NoOut, err |-> "none", errfields |-> {}, sent |-> FALSE,
     key |-> "", ret |-> <<>>, retout |-> NoOut, before |-> <<>>,
     round |-> 0, prev |-> NoPrev, resp |-> <<>>, drafted |-> FALSE,
     provider |-> ""]

Init ==
    /\ msgs \in {[i \in 1..Len(MsgIds) |->
                     [id |-> MsgIds[i], thread_id |-> "t1", labels |-> ls[i]]] :
                 ls \in [1..Len(MsgIds) -> InitLabels]}
    /\ env_key \in {"", "k1"}
    /\ cache = [a \in ApiKeyArgs |-> ""]
    /\ env_anthropic = ""
    /\ secrets = NoSecrets
    /\ calls = [c \in Slots |-> Idle]
    /\ ncalls = 0

Set(c, r) == calls' = [calls EXCEPT ![c] = r]

Start(c, r) ==
    /\ calls[c].pc = "idle"
    /\ ncalls < MaxCalls
    /\ ncalls' = ncalls + 1
    /\ Set(c, [r EXCEPT !.round = 1, !.before = msgs])
    /\ UNCHANGED <<msgs, env_key, cache, env_anthropic, secrets>>

\* ------------------------------------------------------ calls being made
\* pipeline.py line 12-13: triage_message(p, msg) is entered (Pending)
TriageBegin(c, id) ==
    Start(c, [Idle EXCEPT !.op = "triage", !.pc = "ask", !.id = id])

\* demo.py line 19: apply_labels(id, add, remove) is entered
ApplyLabelsBegin(c, id, add, remove) ==
    Start(c, [Idle EXCEPT !.op = "apply_labels", !.pc = "find", !.id = id,
                          !.add = add, !.remove = remove])

\* demo.py line 16: get_message(id) is entered
GetMessageBegin(c, id) ==
    Start(c, [Idle EXCEPT !.op = "get_message", !.pc = "get", !.id = id])

\* llm.py line 21: ask_json(prompt, api_key=...) is entered
AskJsonBegin(c, k) ==
    Start(c, [Idle EXCEPT !.op = "ask_json", !.pc = "ask", !.api_key = k])

\* an exception leaves the function: the call is over (Failed)
Raise(c, e, fields) ==
    Set(c, [calls[c] EXCEPT !.pc = "raised", !.err = e, !.errfields = fields])

\* llm.py lines 11-19, _get_client under lru_cache: the key of the client the
\* call gets, "" when _get_client raises
client_hit(ch, k) == ch[k] # ""

resolve_key(k, env) == IF k \in {NoneKey, ""} THEN env ELSE k

get_client(ch, k, env) == IF client_hit(ch, k) THEN ch[k] ELSE resolve_key(k, env)

\* lru_cache stores the client a call of _get_client returned, nothing when it
\* raised
cache_after(ch, k, env) ==
    IF ~client_hit(ch, k) /\ resolve_key(k, env) # ""
    THEN [ch EXCEPT ![k] = resolve_key(k, env)]
    ELSE ch

\* llm.py lines 26-39: ask_json gets its client, sends the request, cleans the
\* reply text and parses it; text is the reply of the backend and obj the
\* object its JSON text stands for.  resp is a local of ask_json: a
\* triage_message that goes on has it no more.
AskJsonReply(c, text, obj) ==
    /\ calls[c].pc = "ask"
    /\ LET k      == calls[c].api_key
           client == get_client(cache, k, env_key)
       IN  IF client = ""
           THEN /\ Raise(c, "MissingCredential", {})
                /\ UNCHANGED cache
           ELSE /\ cache' = cache_after(cache, k, env_key)
                /\ LET sentc == [calls[c] EXCEPT
                                   !.sent = TRUE, !.key = client,
                                   !.resp = IF calls[c].op = "triage" THEN <<>>
                                            ELSE text]
                   IN  \/ Set(c, [sentc EXCEPT !.pc = "raised", !.resp = <<>>,
                                               !.err = "BackendError"])
                       \/  LET parsed == json_loads(clean_text(text))
                                data ==
                                  CASE parsed = "obj"   -> [kind |-> "dict", obj |-> obj]
                                    [] parsed = "empty" -> [kind |-> "dict", obj |-> EmptyObject]
                                    [] parsed = "list"  -> [kind |-> "list", obj |-> EmptyObject]
                                    [] OTHER            -> NoData
                                next == IF calls[c].op = "triage" THEN "validate"
                                        ELSE "returned"
                            IN  IF parsed = "error"
                                THEN Set(c, [sentc EXCEPT !.pc = "raised",
                                                          !.err = "MalformedResponse"])
                                ELSE Set(c, [sentc EXCEPT !.pc = next, !.data = data])
    /\ UNCHANGED <<msgs, env_key, env_anthropic, secrets, ncalls>>

\* the objects a reply text can stand for: the object matters only when the
\* text is an object with members
reply_objects(ready, objs) ==
    IF json_loads(ready) = "obj" THEN objs ELSE {EmptyObject}

AskJson(c) ==
    /\ calls[c].pc = "ask"
    /\ \E text \in ResponseTexts :
         \E obj \in reply_objects(clean_text(text), Payloads) :
            AskJsonReply(c, text, obj)

\* a triage_message that puts the summary marker on the message before it
\* validates the reply
ValidateAfterMarking(c) ==
    /\ calls[c].pc = "validate"
    /\ LET i == find(msgs, calls[c].id)
       IN  msgs' = IF i = 0 THEN msgs
                   ELSE [msgs EXCEPT ![i].labels =
                            sorted(Range(msgs[i].labels) \cup {SummaryLabel})]
    /\ LET data == calls[c].data
       IN  IF data.kind # "dict"
           THEN Raise(c, "TypeError", {})
           ELSE IF ErrorFields(data.obj) # {}
           THEN Raise(c, "SchemaViolation", ErrorFields(data.obj))
           ELSE Set(c, [calls[c] EXCEPT
                          !.pc = "find",
                          !.out = TriageOut(data.obj),
                          !.add = List(labels_to_add(TriageOut(data.obj)))])
    /\ UNCHANGED <<env_key, cache, env_anthropic, secrets, ncalls>>

\* a triage_message that asks the model again when the reply does not
\* validate
ValidateRetrying(c) ==
    /\ calls[c].pc = "validate"
    /\ LET data == calls[c].data
       IN  IF data.kind # "dict"
           THEN Raise(c, "TypeError", {})
           ELSE IF ErrorFields(data.obj) # {}
           THEN Set(c, [calls[c] EXCEPT !.pc = "ask", !.data = NoData])
           ELSE Set(c, [calls[c] EXCEPT
                          !.pc = "find",
                          !.out = TriageOut(data.obj),
                          !.add = List(labels_to_add(TriageOut(data.obj)))])
    /\ UNCHANGED <<msgs, env_key, cache, env_anthropic, secrets, ncalls>>

\* pipeline.py lines 15 and 18: out = TriageOut(**data), then labels_to_add
\* (a TypeError when data is no mapping, a KeyError when the priority has no
\* entry in PRIORITY_TO_LABEL)
Validate(c) ==
    /\ calls[c].pc = "validate"
    /\ LET data == calls[c].data
       IN  IF data.kind # "dict"
           THEN Raise(c, "TypeError", {})
           ELSE IF ErrorFields(data.obj) # {}
           THEN Raise(c, "SchemaViolation", ErrorFields(data.obj))
           ELSE IF TriageOut(data.obj).priority \notin DOMAIN PRIORITY_TO_LABEL
           THEN Set(c, [calls[c] EXCEPT !.pc = "raised", !.err = "KeyError",
                                        !.out = TriageOut(data.obj)])
           ELSE Set(c, [calls[c] EXCEPT
                          !.pc = "find",
                          !.out = TriageOut(data.obj),
                          !.add = List(labels_to_add(TriageOut(data.obj)))])
    /\ UNCHANGED <<msgs, env_key, cache, env_anthropic, secrets, ncalls>>

\* demo.py lines 20-21: m = self._find(id); labels = set(m.get("labels", []))
Find(c) ==
    /\ calls[c].pc = "find"
    /\ LET i == find(msgs, calls[c].id)
       IN  IF i = 0
           THEN Raise(c, "NotFound", {})
           ELSE Set(c, [calls[c] EXCEPT !.pc = "write", !.m = i,
                                        !.labels = Range(msgs[i].labels)])
    /\ UNCHANGED <<msgs, env_key, cache, env_anthropic, secrets, ncalls>>

\* an apply_labels that also makes the draft of a reply_draft action
WriteApplyingDrafts(c) ==
    /\ calls[c].pc = "write"
    /\ msgs' = [msgs EXCEPT ![calls[c].m].labels =
                   new_labels(calls[c].labels, calls[c].add, calls[c].remove)]
    /\ Set(c, [calls[c] EXCEPT
                 !.pc = "returned", !.retout = calls[c].out,
                 !.drafted = \E k \in 1..Len(calls[c].out.suggested_actions) :
                                calls[c].out.suggested_actions[k].type = "reply_draft"])
    /\ UNCHANGED <<env_key, cache, env_anthropic, secrets, ncalls>>

\* an apply_labels that stores the list of messages it saw when the call
\* began, with the new labels of its message
WriteWholeList(c) ==
    /\ calls[c].pc = "write"
    /\ msgs' = [calls[c].before EXCEPT ![calls[c].m].labels =
                   new_labels(calls[c].labels, calls[c].add, calls[c].remove)]
    /\ Set(c, [calls[c] EXCEPT !.pc = "returned", !.retout = calls[c].out])
    /\ UNCHANGED <<env_key, cache, env_anthropic, secrets, ncalls>>

\* demo.py lines 22-25: update, discard, m["labels"] = sorted(labels); then
\* apply_labels returns, and triage_message returns out (pipeline.py line 21,
\* Applied)
Write(c) ==
    /\ calls[c].pc = "write"
    /\ msgs' = [msgs EXCEPT ![calls[c].m].labels =
                   new_labels(calls[c].labels, calls[c].add, calls[c].remove)]
    /\ Set(c, [calls[c] EXCEPT !.pc = "returned", !.retout = calls[c].out])
    /\ UNCHANGED <<env_key, cache, env_anthropic, secrets, ncalls>>

\* demo.py lines 16-17: get_message returns Email(**self._find(id))
GetMessage(c) ==
    /\ calls[c].pc = "get"
    /\ LET i == find(msgs, calls[c].id)
       IN  IF i = 0
           THEN Raise(c, "NotFound", {})
           ELSE Set(c, [calls[c] EXCEPT !.pc = "returned", !.m = i,
                                        !.ret = msgs[i].labels])
    /\ UNCHANGED <<msgs, env_key, cache, env_anthropic, secrets, ncalls>>

\* demo.py line 27: create_draft(thread_id, body) is entered
CreateDraftBegin(c, thread_id) ==
    Start(c, [Idle EXCEPT !.op = "create_draft", !.pc = "draft", !.id = thread_id])

\* demo.py lines 27-29: create_draft returns f"draft_{thread_id}" and stores
\* nothing
CreateDraft(c) ==
    /\ calls[c].pc = "draft"
    /\ Set(c, [calls[c] EXCEPT !.pc = "returned", !.drafted = TRUE,
                               !.ret = <<"draft_", calls[c].id>>])
    /\ UNCHANGED <<msgs, env_key, cache, env_anthropic, secrets, ncalls>>

\* streamlit_app.py line 204: ask_json(prompt, provider, model) of the app is
\* entered
AppAskJsonBegin(c, provider) ==
    Start(c, [Idle EXCEPT !.op = "app_ask_json", !.pc = "app",
                          !.provider = provider])

\* "os.environ.get(name) or st.secrets.get(name)"
env_or_secret(env, name) == IF env # "" THEN env ELSE secrets[name]

\* the end of an app call whose key is key and whose reply text, made ready for
\* json.loads, is ready
AppParse(c, key, text, ready, obj) ==
    IF key = ""
    THEN Raise(c, "MissingCredential", {})
    ELSE LET sentc  == [calls[c] EXCEPT !.sent = TRUE, !.key = key, !.resp = text]
             parsed == json_loads(ready)
             data ==
               CASE parsed = "obj"   -> [kind |-> "dict", obj |-> obj]
                 [] parsed = "empty" -> [kind |-> "dict", obj |-> EmptyObject]
                 [] parsed = "list"  -> [kind |-> "list", obj |-> EmptyObject]
                 [] OTHER            -> NoData
         IN  IF parsed = "error"
             THEN Set(c, [sentc EXCEPT !.pc = "raised", !.err = "MalformedResponse"])
             ELSE Set(c, [sentc EXCEPT !.pc = "returned", !.data = data])

\* streamlit_app.py lines 163-182: ask_json_openai
AskJsonOpenAI(c, text, obj) ==
    /\ calls[c].pc = "app"
    /\ calls[c].provider = "OpenAI"
    /\ AppParse(c, env_or_secret(env_key, "OPENAI_API_KEY"), text,
                openai_text(text), obj)
    /\ UNCHANGED <<msgs, env_key, cache, env_anthropic, secrets, ncalls>>

\* streamlit_app.py lines 184-202: ask_json_anthropic
AskJsonAnthropic(c, text, obj) ==
    /\ calls[c].pc = "app"
    /\ calls[c].provider # "OpenAI"
    /\ AppParse(c, env_or_secret(env_anthropic, "ANTHROPIC_API_KEY"), text,
                anthropic_text(text), obj)
    /\ UNCHANGED <<msgs, env_key, cache, env_anthropic, secrets, ncalls>>

\* the caller has the result or the exception of the call and goes on
Finish(c) ==
    /\ calls[c].pc \in {"returned", "raised"}
    /\ Set(c, Idle)
    /\ UNCHANGED <<msgs, env_key, cache, env_anthropic, secrets, ncalls>>

\* the caller makes the call it just made once more, with the same arguments:
\* apply_labels(id, add, remove) twice in succession, or a triage_message that
\* is run again on the same message
Again(c) ==
    /\ calls[c].pc \in {"returned", "raised"}
    /\ calls[c].op \in {"triage", "apply_labels"}
    /\ ncalls < MaxCalls
    /\ ncalls' = ncalls + 1
    /\ Set(c, [Idle EXCEPT
                 !.op = calls[c].op,
                 !.pc = IF calls[c].op = "triage" THEN "ask" ELSE "find",
                 !.id = calls[c].id,
                 !.add = IF calls[c].op = "triage" THEN None ELSE calls[c].add,
                 !.remove = calls[c].remove,
                 !.before = msgs,
                 !.round = calls[c].round + 1,
                 !.prev = [status |-> calls[c].pc,
                           priority |-> calls[c].retout.priority,
                           before |-> calls[c].before]])
    /\ UNCHANGED <<msgs, env_key, cache, env_anthropic, secrets>>

\* the environment variable OPENAI_API_KEY is set or unset between calls
SetEnv(k) ==
    /\ k # env_key
    /\ \A c \in Slots : calls[c].pc \in {"idle", "returned", "raised"}
    /\ env_key' = k
    /\ UNCHANGED <<msgs, cache, env_anthropic, secrets, calls, ncalls>>

Step(c) ==
    \/ \E id \in Ids : TriageBegin(c, id)
    \/ \E id \in Ids, add \in AddLists, remove \in RemoveLists :
           ApplyLabelsBegin(c, id, add, remove)
    \/ \E id \in Ids : GetMessageBegin(c, id)
    \/ \E k \in ApiKeyArgs : AskJsonBegin(c, k)
    \/ \E t \in ThreadIds : CreateDraftBegin(c, t)
    \/ AskJson(c)
    \/ CreateDraft(c)
    \/ Validate(c)
    \/ Find(c)
    \/ Write(c)
    \/ GetMessage(c)
    \/ Finish(c)
    \/ Again(c)

Next ==
    \/ \E c \in SeqSlots : Step(c)
    \/ \E k \in {"", "k1"} : SetEnv(k)

Spec == Init /\ [][Next]_vars

\* ------------------------------------------ two triage calls at once
\* Two threads run triage_message on one provider, each on its own message;
\* their steps interleave freely.
ConcMsgs ==
    [i \in 1..Len(MsgIds) |->
        [id |-> MsgIds[i], thread_id |-> "t1",
         labels |-> IF i = 1 THEN <<"INBOX">> ELSE <<>>]]

ConcTexts == {<<"{", "body", "}">>, <<"prose">>}

ConcInit ==
    /\ msgs = ConcMsgs
    /\ env_key = "k1"
    /\ cache = [a \in ApiKeyArgs |-> ""]
    /\ env_anthropic = ""
    /\ secrets = NoSecrets
    /\ calls = [c \in Slots |-> Idle]
    /\ ncalls = 0

\* a triage_message on a message no other running or finished call is on
ConcTriageBegin(c, id) ==
    /\ \A d \in Slots \ {c} : calls[d].op = "triage" => calls[d].id # id
    /\ TriageBegin(c, id)

ConcNext ==
    \E c \in Slots :
        \/ \E id \in Ids : ConcTriageBegin(c, id)
        \/ /\ calls[c].pc = "ask"
           /\ \E text \in ConcTexts :
                \E obj \in reply_objects(clean_text(text), TextPayloads) :
                    AskJsonReply(c, text, obj)
        \/ Validate(c)
        \/ Find(c)
        \/ Write(c)

ConcSpec == ConcInit /\ [][ConcNext]_vars

\* ------------------------------------------------- the validation alone
\* triage_message at pipeline.py line 15, ask_json having returned a dict
\* with any members of Objects.
ValInit ==
    /\ msgs = [i \in 1..Len(MsgIds) |->
                  [id |-> MsgIds[i], thread_id |-> "t1", labels |-> <<>>]]
    /\ env_key = "k1"
    /\ cache = [a \in ApiKeyArgs |-> IF a = NoneKey THEN "k1" ELSE ""]
    /\ env_anthropic = ""
    /\ secrets = NoSecrets
    /\ \E obj \in Objects, id \in Ids :
          calls = [c \in Slots |->
                     IF c \in SeqSlots
                     THEN [Idle EXCEPT !.op = "triage", !.pc = "validate",
                                       !.id = id, !.sent = TRUE, !.key = "k1",
                                       !.data = [kind |-> "dict", obj |-> obj],
                                       !.round = 1, !.before = msgs]
                     ELSE Idle]
    /\ ncalls = 1

ValNext == \E c \in SeqSlots : Validate(c) \/ Find(c) \/ Write(c)

ValSpec == ValInit /\ [][ValNext]_vars

\* ------------------------------------------- the handling of the reply text
\* One call of ask_json, of llm.py or of the app with either backend, on every
\* reply text of TextInputs.
TextInit ==
    /\ msgs = [i \in 1..Len(MsgIds) |->
                  [id |-> MsgIds[i], thread_id |-> "t1", labels |-> <<>>]]
    /\ env_key = "k1"
    /\ cache = [a \in ApiKeyArgs |-> ""]
    /\ env_anthropic = ""
    /\ secrets \in {NoSecrets, [NoSecrets EXCEPT !["ANTHROPIC_API_KEY"] = "s1"]}
    /\ calls = [c \in Slots |-> Idle]
    /\ ncalls = MaxCalls - 1

TextNext ==
    \E c \in SeqSlots :
        \/ AskJsonBegin(c, NoneKey)
        \/ \E provider \in {"OpenAI", "Anthropic"} : AppAskJsonBegin(c, provider)
        \/ /\ calls[c].pc = "ask"
           /\ \E text \in TextInputs :
                \E obj \in reply_objects(clean_text(text), TextPayloads) :
                    AskJsonReply(c, text, obj)
        \/ /\ calls[c].pc = "app"
           /\ \E text \in TextInputs :
                \E obj \in reply_objects(openai_text(text), TextPayloads) :
                    AskJsonOpenAI(c, text, obj)
        \/ /\ calls[c].pc = "app"
           /\ \E text \in TextInputs :
                \E obj \in reply_objects(anthropic_text(text), TextPayloads) :
                    AskJsonAnthropic(c, text, obj)

TextSpec == TextInit /\ [][TextNext]_vars

\* ------------------------------------------------------------------ claims
IsTriage(c)      == calls[c].op = "triage"
IsApplyLabels(c) == calls[c].op = "apply_labels"
Returned(c)      == calls[c].pc = "returned"
Raised(c)        == calls[c].pc = "raised"

LabelSet(ms, i) == Range(ms[i].labels)

\* the source has no message with this id
Missing(id) == \A i \in 1..Len(msgs) : msgs[i].id # id

\* C1: a triage_message whose validated result has priority p adds exactly
\* the two labels EA/Summary and PRIORITY_TO_LABEL[p] to the message: its
\* labels afterwards are its labels before united with that set, the set
\* holds exactly one priority label, and every priority has a non-empty label.
C1_TriageAddsMarkerAndPriority ==
    /\ \A p \in Priority : PRIORITY_TO_LABEL[p] # "" /\ PRIORITY_TO_LABEL[p] \in Labels
    /\ \A c \in Slots :
         IsTriage(c) /\ Returned(c) =>
           LET p     == calls[c].retout.priority
               i     == calls[c].m
               added == {SummaryLabel, PRIORITY_TO_LABEL[p]}
           IN  /\ p \in Priority
               /\ msgs[i].id = calls[c].id
               /\ Cardinality(added) = 2
               /\ Cardinality(added \cap PriorityLabels) = 1
               /\ LabelSet(msgs, i) = LabelSet(calls[c].before, i) \cup added

C1_Witness ==
    \E c \in Slots :
        /\ IsTriage(c) /\ Returned(c)
        /\ calls[c].retout.priority = "medium"
        /\ "INBOX" \in LabelSet(calls[c].before, calls[c].m)
        /\ "EA/Priority/Med" \notin LabelSet(calls[c].before, calls[c].m)

\* C2: a triage_message that fails in the model client (no credential, a
\* backend error, an unparseable reply) or in validation ends with the error
\* raised to the caller, returns nothing, and leaves the labels of every
\* message as they were before the call.
ClientOrValidationErrors ==
    {"MissingCredential", "BackendError", "MalformedResponse",
     "SchemaViolation", "TypeError"}

C2_FailedTriageLeavesLabels ==
    \A c \in Slots :
        IsTriage(c) /\ Raised(c) /\ calls[c].err \in ClientOrValidationErrors =>
            /\ msgs = calls[c].before
            /\ calls[c].retout = NoOut

C2_Witness ==
    \E c \in Slots :
        /\ IsTriage(c) /\ Raised(c)
        /\ calls[c].err = "SchemaViolation"
        /\ ~Missing(calls[c].id)
        /\ SummaryLabel \notin LabelSet(msgs, find(msgs, calls[c].id))

\* C3: apply_labels(id, add, remove) called a second time in succession leaves
\* the labels of the message, and the whole source, as the first call left them.
C3_ApplyLabelsIdempotent ==
    \A c \in Slots :
        /\ IsApplyLabels(c) /\ Returned(c)
        /\ calls[c].round >= 2 /\ calls[c].prev.status = "returned"
        => msgs = calls[c].before

C3_Witness ==
    \E c \in Slots :
        /\ IsApplyLabels(c) /\ Returned(c)
        /\ calls[c].round >= 2 /\ calls[c].prev.status = "returned"
        /\ calls[c].prev.before # calls[c].before
        /\ or_empty(calls[c].add) # <<>>
        /\ or_empty(calls[c].remove) # <<>>

\* C4: apply_labels(id, add, remove) sets the labels of the message to
\* (old labels united with add) minus remove, so a label that is in both add
\* and remove is absent afterwards, and changes no other message.
C4_ApplyLabelsUnionThenDifference ==
    \A c \in Slots :
        IsApplyLabels(c) /\ Returned(c) =>
            LET i   == calls[c].m
                add == Range(calls[c].add.v)
                rem == Range(calls[c].remove.v)
            IN  /\ msgs[i].id = calls[c].id
                /\ LabelSet(msgs, i) = (LabelSet(calls[c].before, i) \cup add) \ rem
                /\ \A l \in add \cap rem : l \notin LabelSet(msgs, i)
                /\ \A j \in 1..Len(msgs) : j # i => msgs[j] = calls[c].before[j]
                /\ Len(msgs) = Len(calls[c].before)

C4_Witness ==
    \E c \in Slots :
        /\ IsApplyLabels(c) /\ Returned(c)
        /\ Range(calls[c].add.v) \cap Range(calls[c].remove.v) # {}
        /\ LabelSet(msgs, calls[c].m) # {}
        /\ LabelSet(msgs, calls[c].m) # LabelSet(calls[c].before, calls[c].m)

\* C5: a triage_message that is run again on the same message, after a run
\* that failed or that returned the same priority, leaves the stored labels
\* of the message without duplicates and equal to the labels of one single
\* successful run from the labels the earlier run started with.
C5_RerunEqualsSingleRun ==
    \A c \in Slots :
        /\ IsTriage(c) /\ Returned(c) /\ calls[c].round >= 2
        /\ \/ calls[c].prev.status = "raised"
           \/ calls[c].prev.priority = calls[c].retout.priority
        => LET i == calls[c].m
               p == calls[c].retout.priority
           IN  /\ NoDup(msgs[i].labels)
               /\ IsSorted(msgs[i].labels)
               /\ LabelSet(msgs, i) =
                    LabelSet(calls[c].prev.before, i)
                        \cup {SummaryLabel, PRIORITY_TO_LABEL[p]}

C5_Witness ==
    \E c \in Slots :
        /\ IsTriage(c) /\ Returned(c) /\ calls[c].round >= 2
        /\ calls[c].prev.status = "raised"
        /\ LabelSet(calls[c].prev.before, calls[c].m) # {}

\* C6: when the model call and validation succeed but apply_labels fails, the
\* failure is surfaced and the TriageResult already computed is still handed
\* to the caller of triage_message.
C6_ResultSurvivesApplyFailure ==
    \A c \in Slots :
        IsTriage(c) /\ Raised(c) /\ calls[c].err = "NotFound" =>
            /\ calls[c].out # NoOut
            /\ calls[c].retout = calls[c].out

\* C7: get_message(id) and apply_labels(id, ...) with an id that no message
\* of the source has fail with the not-found error (the StopIteration of
\* next() in _find) and leave the labels of every message unchanged.
C7_MissingIdFails ==
    \A c \in Slots :
        calls[c].op \in {"get_message", "apply_labels"} /\ Missing(calls[c].id) =>
            /\ calls[c].pc \in {"get", "find", "raised"}
            /\ Raised(c) => /\ calls[c].err = "NotFound"
                            /\ msgs = calls[c].before
                            /\ calls[c].ret = <<>>

C7_Witness ==
    \E c \in Slots :
        /\ IsApplyLabels(c) /\ Raised(c) /\ Missing(calls[c].id)
        /\ calls[c].err = "NotFound"
        /\ or_empty(calls[c].add) # <<>>

\* C8: validation accepts a parsed result only if its priority is one of
\* high, medium, low; a result whose priority is absent or another value is
\* rejected with a schema violation on field priority, so every TriageOut
\* that reaches label derivation has a priority of the enumeration.
C8_PriorityEnumeration ==
    \A c \in Slots :
        IsTriage(c) =>
            /\ calls[c].pc \in {"find", "write", "returned"} =>
                  /\ calls[c].out.priority \in {"high", "medium", "low"}
                  /\ calls[c].out.priority = calls[c].data.obj.priority
            /\ /\ calls[c].data.kind = "dict"
               /\ calls[c].data.obj.priority \notin {"high", "medium", "low"}
               /\ calls[c].pc # "validate"
               => /\ Raised(c)
                  /\ calls[c].err = "SchemaViolation"
                  /\ "priority" \in calls[c].errfields
                  /\ calls[c].out = NoOut

C8_Witness ==
    \E c \in Slots :
        /\ IsTriage(c) /\ Raised(c)
        /\ calls[c].data.obj.priority = "urgent"
        /\ calls[c].errfields = {"priority"}

\* C9: validation rejects with a schema violation every parsed result whose
\* suggested_actions holds an action whose type is not label or reply_draft,
\* and triage_message then applies no labels.
HasUnknownAction(obj) ==
    \E i \in 1..Len(obj.suggested_actions.v) :
        /\ obj.suggested_actions.v[i].isdict
        /\ obj.suggested_actions.v[i].type \notin {"label", "reply_draft"}

C9_UnknownActionRejected ==
    \A c \in Slots :
        /\ IsTriage(c) /\ calls[c].data.kind = "dict"
        /\ HasUnknownAction(calls[c].data.obj)
        /\ calls[c].pc # "validate"
        => /\ Raised(c)
           /\ calls[c].err = "SchemaViolation"
           /\ msgs = calls[c].before

\* C10: a parsed result with a valid summary and priority that lacks reasons,
\* suggested_actions or both passes validation, and the missing field is an
\* empty sequence in the TriageOut.
LacksOptionalField(obj) ==
    /\ obj.summary.k = "str"
    /\ obj.summary.len >= 10 /\ obj.summary.len <= 800
    /\ obj.priority \in {"high", "medium", "low"}
    /\ obj.reasons.k = "absent" \/ obj.suggested_actions.k = "absent"
    /\ \A i \in 1..Len(obj.reasons.v) : obj.reasons.v[i] # "<null>"
    /\ \A i \in 1..Len(obj.suggested_actions.v) : obj.suggested_actions.v[i].isdict

C10_AbsentListsDefaultToEmpty ==
    \A c \in Slots :
        /\ IsTriage(c) /\ calls[c].data.kind = "dict"
        /\ LacksOptionalField(calls[c].data.obj)
        /\ calls[c].pc # "validate"
        => /\ calls[c].err \notin {"SchemaViolation", "TypeError", "KeyError"}
           /\ calls[c].out # NoOut
           /\ calls[c].data.obj.reasons.k = "absent" => calls[c].out.reasons = <<>>
           /\ calls[c].data.obj.suggested_actions.k = "absent"
                 => calls[c].out.suggested_actions = <<>>

\* C11: validation accepts a summary exactly when it is a string of 10 to 800
\* characters, both bounds included: once triage_message is past the
\* validation of a dict, it has raised a schema violation naming summary if
\* and only if the summary is absent, shorter than 10 or longer than 800.
C11_SummaryAcceptedWithinBounds ==
    \A c \in Slots :
        /\ IsTriage(c) /\ calls[c].data.kind = "dict"
        /\ calls[c].pc # "validate"
        => LET v == calls[c].data.obj.summary
               rejected == /\ Raised(c) /\ calls[c].err = "SchemaViolation"
                           /\ "summary" \in calls[c].errfields
           IN  rejected <=> ~(v.k = "str" /\ v.len >= 10 /\ v.len <= 800)

\* a summary of five characters ("short") has been rejected, naming summary
C11_Witness ==
    \E c \in Slots :
        /\ IsTriage(c) /\ Raised(c) /\ calls[c].err = "SchemaViolation"
        /\ "summary" \in calls[c].errfields
        /\ calls[c].data.obj.summary = [k |-> "str", len |-> 5]

\* how a call of ask_json ended, in the words of json_loads
ParsedAs(c) ==
    CASE Raised(c)                        -> "error"
      [] calls[c].data.kind = "list"      -> "list"
      [] calls[c].data.obj = EmptyObject  -> "empty"
      [] OTHER                            -> "obj"

IsAskJson(c) == calls[c].op = "ask_json"
IsAppAskJson(c) == calls[c].op = "app_ask_json"

\* the backend has replied and the call is over
Replied(c) == calls[c].pc \in {"returned", "raised"} /\ calls[c].resp # <<>>

\* one JSON object with prose before it and prose after it
ProseAroundObject(t) ==
    \E i, j \in 1..Len(t) :
        /\ 1 < i /\ i < j /\ j < Len(t)
        /\ is_object(SubSeq(t, i, j))
        /\ \A k \in (1..(i - 1)) \cup ((j + 1)..Len(t)) : t[k] \in {"prose", WS}
        /\ \E k \in 1..(i - 1) : t[k] = "prose"
        /\ \E k \in (j + 1)..Len(t) : t[k] = "prose"

\* C12: when the reply text is one JSON object with prose before it and after
\* it, ask_json returns the parsed object.
C12_ProseAroundObjectRecovered ==
    \A c \in Slots :
        IsAskJson(c) /\ Replied(c) /\ ProseAroundObject(calls[c].resp)
        => Returned(c) /\ calls[c].data.kind = "dict"

\* the texts j of which the text t is, once trimmed, an opening fence
\* (annotated json or not), whitespace or none, j, whitespace or none, and a
\* closing fence
UnFenced(t) ==
    LET s == strip(t)
        n == Len(s)
        mid == SubSeq(s, 2, n - 1)
        unannotated == {mid} \cup
            (IF Len(mid) > 0 /\ mid[1] = "json" THEN {Tail(mid)} ELSE {})
        unled == unannotated \cup
            {Tail(m) : m \in {x \in unannotated : Len(x) > 0 /\ x[1] = WS}}
        untrailed == unled \cup
            {SubSeq(m, 1, Len(m) - 1) :
                m \in {x \in unled : Len(x) > 0 /\ x[Len(x)] = WS}}
    IN  IF n >= 2 /\ s[1] = "fence" /\ s[n] = "fence" THEN untrailed ELSE {}

\* the text is one JSON value
IsJsonText(j) == json_loads(j) # "error" /\ strip(j) = j

\* C13: when the trimmed reply text is an opening fence (annotated json or
\* not), a JSON value and a closing fence, ask_json returns what parsing the
\* JSON text alone gives.
C13_FencedEqualsBare ==
    \A c \in Slots :
        IsAskJson(c) /\ Replied(c)
        => \A j \in UnFenced(calls[c].resp) :
              IsJsonText(j) => ParsedAs(c) = json_loads(j)

\* a fenced object, annotated json, has been returned as a dict
C13_Witness ==
    \E c \in Slots :
        /\ IsAskJson(c) /\ Returned(c)
        /\ calls[c].resp = <<"fence", "json", WS, "{", "body", "}", WS, "fence">>
        /\ calls[c].data.kind = "dict" /\ calls[c].data.obj # EmptyObject

\* C15: on every reply text the OpenAI path and the Anthropic path of the
\* app end the same way: a call of either path ends as the OpenAI handling of
\* its text ends and as the Anthropic handling of its text ends.
C15_BackendsParseAlike ==
    \A c \in Slots :
        IsAppAskJson(c) /\ Replied(c)
        => /\ ParsedAs(c) = json_loads(openai_text(calls[c].resp))
           /\ ParsedAs(c) = json_loads(anthropic_text(calls[c].resp))

\* C14: an ask_json call made while no key is resolvable from the explicit
\* argument, the environment variable and the secrets store ends with the
\* missing-credential error and without a request having been sent, whatever
\* calls and changes of the environment came before.
NoKeyResolvable(c) ==
    /\ resolve_key(calls[c].api_key, env_key) = ""
    /\ secrets["OPENAI_API_KEY"] = ""

C14_NoKeyFailsBeforeRequest ==
    [][\A c \in Slots :
          /\ calls[c].pc = "ask" /\ calls'[c].pc # "ask"
          /\ NoKeyResolvable(c)
          => /\ calls'[c].pc = "raised"
             /\ calls'[c].err = "MissingCredential"
             /\ ~calls'[c].sent]_vars

\* C16: a triage_message call goes through the model call, the validation
\* and apply_labels in this order, each at most once: every step moves the
\* call forward or ends it, apply_labels is entered only from a validation
\* that succeeded on the dict the model call returned, the messages change
\* only in apply_labels, and a call that returned or raised takes no further
\* step (the caller may start the next call).
C16_TriageStepsInOrder ==
    [][\A c \in Slots :
          calls[c].op = "triage" /\ calls'[c] # calls[c]
          => LET a == calls[c].pc
                 b == calls'[c].pc
                 same == calls'[c].round = calls[c].round /\ b # "idle"
             IN  /\ a = "ask"      => b \in {"validate", "raised"}
                 /\ a = "validate" => b \in {"find", "raised"}
                 /\ a = "find"     => b \in {"write", "raised"}
                 /\ a = "write"    => b = "returned"
                 /\ a \in {"returned", "raised"} => ~same /\ msgs' = msgs
                 /\ b = "find" /\ same
                       => /\ a = "validate" /\ calls[c].sent
                          /\ calls[c].data.kind = "dict"
                          /\ ErrorFields(calls[c].data.obj) = {}
                 /\ msgs' # msgs => a = "write"]_vars

\* a triage_message has gone through the three steps and returned (Applied)
C16_Witness ==
    \E c \in Slots :
        /\ IsTriage(c) /\ Returned(c) /\ calls[c].sent
        /\ calls[c].retout # NoOut /\ msgs # calls[c].before

\* C17: whatever suggested_actions the validated result has, triage_message
\* makes no draft, and of the source it changes the labels of the message
\* msg.id only: the number of messages, every id and thread_id, and the labels
\* of every other message are as they were when the call began.
C17_TriageChangesOnlyItsLabels ==
    \A c \in Slots :
        IsTriage(c)
        => /\ ~calls[c].drafted
           /\ Len(msgs) = Len(calls[c].before)
           /\ \A i \in 1..Len(msgs) :
                 /\ msgs[i].id = calls[c].before[i].id
                 /\ msgs[i].thread_id = calls[c].before[i].thread_id
                 /\ msgs[i].id # calls[c].id
                       => msgs[i].labels = calls[c].before[i].labels

\* a triage_message has returned a result with a reply_draft action
C17_Witness ==
    \E c \in Slots :
        /\ IsTriage(c) /\ Returned(c) /\ msgs # calls[c].before
        /\ calls[c].retout.suggested_actions = <<Action("reply_draft")>>

\* both calls are over, or not begun
Quiet == \A c \in Slots : calls[c].pc \in {"idle", "returned", "raised"}

\* the labels the triage calls that returned have added to the message id
AddedTo(id) ==
    UNION {Range(labels_to_add(calls[c].retout)) :
             c \in {d \in Slots : IsTriage(d) /\ Returned(d) /\ calls[d].id = id}}

\* C18: when two triage_message calls on different messages have run with
\* their steps interleaved in any way, each message carries the labels it
\* carries after the two calls run one after the other: its labels before,
\* and the two labels of the call on it if that call returned.
C18_InterleavedEqualsSequential ==
    Quiet => \A i \in 1..Len(msgs) :
                /\ msgs[i].id = ConcMsgs[i].id
                /\ LabelSet(msgs, i) = LabelSet(ConcMsgs, i) \cup AddedTo(msgs[i].id)
                /\ IsSorted(msgs[i].labels) /\ NoDup(msgs[i].labels)

\* two calls that ran at the same time, each begun before the other wrote,
\* have both returned
C18_Witness ==
    /\ \A c \in Slots :
          IsTriage(c) /\ Returned(c) /\ calls[c].before = ConcMsgs
    /\ \A c, d \in Slots : c # d => calls[c].id # calls[d].id

\* C19: after triage_message has returned on a message that carried no
\* priority label, once or twice in succession, the message carries at most
\* one of the three priority labels.
StartedWithoutPriority(c) ==
    LET i == find(msgs, calls[c].id)
        start == IF calls[c].round = 1 THEN calls[c].before ELSE calls[c].prev.before
    IN  /\ calls[c].round <= 2
        /\ calls[c].round = 2 => calls[c].prev.status = "returned"
        /\ i # 0 /\ LabelSet(start, i) \cap PriorityLabels = {}

C19_AtMostOnePriorityLabel ==
    \A c \in Slots :
        IsTriage(c) /\ Returned(c) /\ StartedWithoutPriority(c)
        => Cardinality(LabelSet(msgs, find(msgs, calls[c].id)) \cap PriorityLabels) <= 1

====
